---- MODULE Spec2Model ----
(***************************************************************************)
(* A model of the Teltonika TCP server (src/main.py): the accept loop,    *)
(* the per-connection handler handle_client with its byte reader          *)
(* receive_all, and the Codec8 / Codec8 Extended decoder                   *)
(* (process_avl_data, parse_record, parse_gps_element, parse_io_element). *)
(* Byte strings are sequences over 0..255; Python offsets are 0-based.    *)
(***************************************************************************)
EXTENDS Integers, Sequences, FiniteSets, TLC

\* How many writes a device makes on one connection (handshake included).
MaxSends == 3

\* ------------------------------------------------------------------------
\* Python byte-string primitives
\* ------------------------------------------------------------------------

Min(a, b) == IF a <= b THEN a ELSE b

\* data[a:b]: a slice never raises, it is cut at the end of the data.
Slice(data, a, b) ==
  IF a >= Len(data) \/ b <= a THEN <<>> ELSE SubSeq(data, a + 1, Min(b, Len(data)))

\* data[a:]
SliceFrom(data, a) == Slice(data, a, Len(data))

\* data[i] is defined (no IndexError) exactly when i < len(data).
HasIndex(data, i) == i >= 0 /\ i < Len(data)

\* data[i]
At(data, i) == data[i + 1]

\* The outcome of a call that raised.
Raise == [ok |-> FALSE]

\* An unsigned integer of any width, as its base-256 numeral without leading
\* zero digits (8-byte values exceed the 32-bit integers of the model checker).
RECURSIVE Numeral(_)
Numeral(bs) == IF bs # <<>> /\ bs[1] = 0 THEN Numeral(Tail(bs)) ELSE bs

\* a <= b on numerals
RECURSIVE LexLeq(_, _)
LexLeq(a, b) ==
  IF a = <<>> THEN TRUE
  ELSE IF a[1] # b[1] THEN a[1] < b[1]
  ELSE LexLeq(Tail(a), Tail(b))

NumLeq(a, b) == Len(a) < Len(b) \/ (Len(a) = Len(b) /\ LexLeq(a, b))

\* struct.unpack('!B' / '!H' / '!I' / '!Q', bs)[0]: raises struct.error unless
\* len(bs) is exactly the width; the value is big-endian unsigned.
unpack_unsigned(width, bs) ==
  IF Len(bs) # width THEN Raise ELSE [ok |-> TRUE, val |-> Numeral(bs)]

\* struct.unpack('!H', bs)[0] as a machine integer (bs has two bytes).
U16(bs) == bs[1] * 256 + bs[2]

\* struct.unpack('!h', bs)[0]: two's complement, 16 bit.
S16(bs) == (IF bs[1] >= 128 THEN bs[1] - 256 ELSE bs[1]) * 256 + bs[2]

\* struct.unpack('!i', bs)[0]: two's complement, 32 bit.
S32(bs) ==
  (IF bs[1] >= 128 THEN bs[1] - 256 ELSE bs[1]) * 16777216
    + bs[2] * 65536 + bs[3] * 256 + bs[4]

\* struct.unpack('!I', bs)[0] as a machine integer; the model only declares
\* frame lengths below 2^31 (first byte < 128).
U32(bs) == bs[1] * 16777216 + bs[2] * 65536 + bs[3] * 256 + bs[4]

\* pack_I with the bytes in little-endian order ('<I').
pack_I_little(n) ==
  << n % 256, (n \div 256) % 256, (n \div 65536) % 256, (n \div 16777216) % 256 >>

\* struct.pack('!I', n) for 0 <= n < 2^31
pack_I(n) ==
  << (n \div 16777216) % 256, (n \div 65536) % 256, (n \div 256) % 256, n % 256 >>

\* struct.pack('!B', n)
pack_B(n) == << n % 256 >>

\* ------------------------------------------------------------------------
\* The decoder
\* ------------------------------------------------------------------------

\* datetime.utcfromtimestamp(ms / 1000) raises ValueError past 9999-12-31:
\* the last millisecond it accepts is 253402300799999 = 0xE677D21FDBFF.
LastTimestamp == <<230, 119, 210, 31, 219, 255>>

utcfromtimestamp_ok(ms) == NumLeq(ms, LastTimestamp)

\* parse_gps_element(data): data is the slice data[offset:offset+15] of the
\* record. Longitude and latitude are kept as the signed count of 1e-7 degrees
\* (the code divides it by 10000000 into a float).
parse_gps_element(data) ==
  IF \/ Len(Slice(data, 0, 4)) # 4
     \/ Len(Slice(data, 4, 8)) # 4
     \/ Len(Slice(data, 8, 10)) # 2
     \/ Len(Slice(data, 10, 12)) # 2
     \/ ~HasIndex(data, 12)
     \/ Len(Slice(data, 13, 15)) # 2
  THEN Raise
  ELSE [ok |-> TRUE,
        gps |-> [longitude  |-> S32(Slice(data, 0, 4)),
                 latitude   |-> S32(Slice(data, 4, 8)),
                 altitude   |-> S16(Slice(data, 8, 10)),
                 angle      |-> U16(Slice(data, 10, 12)),
                 satellites |-> At(data, 12),
                 speed      |-> U16(Slice(data, 13, 15))]]

\* io_put keeping the value an id already has.
io_put_first(io, io_id, io_value) ==
  [x \in (DOMAIN io) \cup {io_id} |-> IF x \in DOMAIN io THEN io[x] ELSE io_value]

\* io_element[io_id] = io_value
io_put(io, io_id, io_value) ==
  [x \in (DOMAIN io) \cup {io_id} |-> IF x = io_id THEN io_value ELSE io[x]]

\* Reading one value of the given width at offset: data[offset] for one byte,
\* struct.unpack on the slice otherwise.
io_value_at(data, offset, width) ==
  IF width = 1
  THEN IF HasIndex(data, offset)
       THEN [ok |-> TRUE, val |-> Numeral(<<At(data, offset)>>)]
       ELSE Raise
  ELSE unpack_unsigned(width, Slice(data, offset, offset + width))

\* io_element[io_id] = io_value once the value v was read: the body of a
\* `for _ in range(n)` loop of the Codec8 branch after the reads.
RECURSIVE io_bucket(_, _, _, _, _)
io_bucket_put(data, offset, n, width, io, io_id, v) ==
  IF ~v.ok THEN Raise
  ELSE io_bucket(data, offset + 1 + width, n - 1, width, io_put(io, io_id, v.val))

\* One `for _ in range(n)` loop of the Codec8 branch: n entries of
\* (1-byte id, width-byte value).
io_bucket(data, offset, n, width, io) ==
  IF n = 0 THEN [ok |-> TRUE, offset |-> offset, io |-> io]
  ELSE IF ~HasIndex(data, offset) THEN Raise
  ELSE io_bucket_put(data, offset, n, width, io, At(data, offset),
                     io_value_at(data, offset + 1, width))

\* The count byte of a bucket (n1, n2, n4 or n8) followed by its entries; g is
\* where the element before it ended.
io_group(data, g, width) ==
  IF ~g.ok THEN Raise
  ELSE IF ~HasIndex(data, g.offset) THEN Raise
  ELSE io_bucket(data, g.offset + 1, At(data, g.offset), width, g.io)

\* The body of the `for _ in range(properties_count)` loop of the Codec8
\* Extended branch for a supported length, once the value v was read.
RECURSIVE io_properties(_, _, _, _)
io_property_put(data, offset, n, io, io_id, io_value_length, v) ==
  IF ~v.ok THEN Raise
  ELSE io_properties(data, offset + 2 + io_value_length, n - 1,
                     io_put(io, io_id, v.val))

\* io_properties leaving the cursor on the value of an entry it does not
\* support (offset += 2 in the place of the skip).
io_properties_noskip(data, offset, n, io) ==
  IF n = 0 THEN [ok |-> TRUE, offset |-> offset, io |-> io]
  ELSE IF ~HasIndex(data, offset) \/ ~HasIndex(data, offset + 1) THEN Raise
  ELSE IF At(data, offset + 1) \in {1, 2, 4, 8}
       THEN io_property_put(data, offset, n, io, At(data, offset), At(data, offset + 1),
                            io_value_at(data, offset + 2, At(data, offset + 1)))
       ELSE io_properties(data, offset + 2, n - 1, io)

\* The `for _ in range(properties_count)` loop of the Codec8 Extended branch.
io_properties(data, offset, n, io) ==
  IF n = 0 THEN [ok |-> TRUE, offset |-> offset, io |-> io]
  ELSE IF ~HasIndex(data, offset) \/ ~HasIndex(data, offset + 1) THEN Raise
  ELSE IF At(data, offset + 1) \in {1, 2, 4, 8}
       THEN io_property_put(data, offset, n, io, At(data, offset), At(data, offset + 1),
                            io_value_at(data, offset + 2, At(data, offset + 1)))
       ELSE \* skip unsupported IO value lengths: nothing is read
            io_properties(data, offset + 2 + At(data, offset + 1), n - 1, io)

\* total_size = offset; return io_element, total_size
io_result(g) == IF ~g.ok THEN Raise ELSE [ok |-> TRUE, io |-> g.io, size |-> g.offset]

\* parse_io_element(data, codec_id) -> io_element, total_size
parse_io_element(data, codec_id) ==
  IF codec_id = 8
  THEN \* event_id = data[0], element_count = data[1], then the four buckets
       IF ~HasIndex(data, 0) \/ ~HasIndex(data, 1) THEN Raise
       ELSE io_result(
              io_group(data,
                io_group(data,
                  io_group(data,
                    io_group(data, [ok |-> TRUE, offset |-> 2, io |-> <<>>], 1),
                    2),
                  4),
                8))
  ELSE IF codec_id = 142
  THEN \* event_id = data[0], properties_count = data[1]
       IF ~HasIndex(data, 0) \/ ~HasIndex(data, 1) THEN Raise
       ELSE io_result(io_properties(data, 2, At(data, 1), <<>>))
  ELSE [ok |-> TRUE, io |-> <<>>, size |-> 0]

\* parse_record, lines 165-176: the IO element e was parsed; the record. The
\* timestamp field stands for the ISO string of the instant: the millisecond
\* count it was built from.
record_built(data, ts, g, e) ==
  IF ~e.ok THEN Raise
  ELSE [ok |-> TRUE,
        record |-> [timestamp |-> ts.val, priority |-> At(data, 8),
                    gps |-> g.gps, io |-> e.io],
        size |-> 24 + e.size]

\* parse_record, lines 161-167: the GPS element g was parsed.
record_after_gps(data, codec_id, ts, g) ==
  IF ~g.ok THEN Raise
  ELSE record_built(data, ts, g, parse_io_element(SliceFrom(data, 24), codec_id))

\* parse_record, lines 151-163: the timestamp ts was unpacked.
record_after_timestamp(data, codec_id, ts) ==
  IF ~ts.ok THEN Raise
  ELSE IF ~utcfromtimestamp_ok(ts.val) THEN Raise
  ELSE IF ~HasIndex(data, 8) THEN Raise
  ELSE record_after_gps(data, codec_id, ts, parse_gps_element(Slice(data, 9, 24)))

\* parse_record(data, codec_id) -> record, offset
parse_record(data, codec_id) ==
  record_after_timestamp(data, codec_id, unpack_unsigned(8, Slice(data, 0, 8)))

\* avl_append keeping the records parsed so far when a record fails.
avl_append_partial(offset, codec_id, records, r) ==
  IF ~r.ok
  THEN [raised |-> FALSE, none |-> FALSE, records |-> records,
        codec_id |-> codec_id, offset |-> offset]
  ELSE [raised |-> FALSE, none |-> FALSE, records |-> Append(records, r.record),
        codec_id |-> codec_id, offset |-> offset + r.size]

\* records.append(record); offset += size, for the record r that
\* parse_record returned at offset.
avl_append(offset, codec_id, records, r) ==
  IF ~r.ok THEN [raised |-> TRUE, none |-> FALSE]
  ELSE [raised |-> FALSE, none |-> FALSE, records |-> Append(records, r.record),
        codec_id |-> codec_id, offset |-> offset + r.size]

\* n iterations of the `for _ in range(record_count)` loop of
\* process_avl_data, from the cursor and the list that `done` holds. The n
\* iterations are taken as the first n \div 2 followed by the others, which
\* keeps the evaluation shallow for hundreds of records.
RECURSIVE avl_records(_, _, _, _)
avl_records(data, codec_id, n, done) ==
  IF done.raised \/ n = 0 THEN done
  ELSE IF n = 1
  THEN avl_append(done.offset, codec_id, done.records,
                  parse_record(SliceFrom(data, done.offset), codec_id))
  ELSE avl_records(data, codec_id, n - (n \div 2),
                   avl_records(data, codec_id, n \div 2, done))

\* record_count reading one count byte whatever the codec.
record_count_one_byte(data, codec_id) ==
  IF ~HasIndex(data, 1) THEN Raise
  ELSE [ok |-> TRUE, count |-> At(data, 1), offset |-> 2]

\* Lines 117-123: the record count and the offset after it.
record_count(data, codec_id) ==
  IF codec_id = 8
  THEN IF ~HasIndex(data, 1) THEN Raise
       ELSE [ok |-> TRUE, count |-> At(data, 1), offset |-> 2]
  ELSE IF Len(Slice(data, 1, 3)) # 2 THEN Raise
       ELSE [ok |-> TRUE, count |-> U16(Slice(data, 1, 3)), offset |-> 3]

\* process_avl_data(data) -> records, codec_id (data is not empty). The
\* result also carries the cursor the loop ended at.
process_avl_data(data) ==
  IF At(data, 0) \notin {8, 142}
  THEN [raised |-> FALSE, none |-> TRUE, codec_id |-> At(data, 0)]
  ELSE IF ~record_count(data, At(data, 0)).ok THEN [raised |-> TRUE, none |-> FALSE]
  ELSE avl_records(data, At(data, 0), record_count(data, At(data, 0)).count,
                   [raised |-> FALSE, none |-> FALSE, records |-> <<>>,
                    codec_id |-> At(data, 0),
                    offset |-> record_count(data, At(data, 0)).offset])

\* ------------------------------------------------------------------------
\* What a device writes: the wire layout the decoder reads, built from the
\* values to be carried
\* ------------------------------------------------------------------------

RECURSIVE Flatten(_)
Flatten(ss) == IF ss = <<>> THEN <<>> ELSE Head(ss) \o Flatten(Tail(ss))

\* A numeral as a big-endian field of the given width.
Field(width, num) ==
  [i \in 1..width |-> IF i <= width - Len(num) THEN 0 ELSE num[i - (width - Len(num))]]

\* [reserved byte][identity length][identity]
Hello(x, identity) == <<x, Len(identity)>> \o identity

\* A count below 2^24 as a numeral.
Num(n) == Numeral(<<n \div 65536, (n \div 256) % 256, n % 256>>)

\* [4-byte big-endian length][payload]
Frame(payload) == Field(4, Num(Len(payload))) \o payload

\* One bucket of the Codec8 IO element: count, then (id, value) entries.
DevBucket(width, entries) ==
  <<Len(entries)>> \o
  Flatten([i \in 1..Len(entries) |-> <<entries[i][1]>> \o Field(width, entries[i][2])])

\* The fixed head of a record: timestamp, priority, GPS element.
DevHead(ts, priority, gps) == Field(8, ts) \o <<priority>> \o gps

\* A Codec8 record; b1, b2, b4, b8 are sequences of <<id, numeral>>.
DevRecord8(ts, priority, gps, b1, b2, b4, b8) ==
  DevHead(ts, priority, gps)
    \o <<0, Len(b1) + Len(b2) + Len(b4) + Len(b8)>>
    \o DevBucket(1, b1) \o DevBucket(2, b2) \o DevBucket(4, b4) \o DevBucket(8, b8)

\* A Codec8 Extended record as this server reads it; props is a sequence of
\* <<id, declared length, value bytes>>.
DevRecord8E(ts, priority, gps, props) ==
  DevHead(ts, priority, gps)
    \o <<0, Len(props)>>
    \o Flatten([i \in 1..Len(props) |-> <<props[i][1], props[i][2]>> \o props[i][3]])

\* Frame payloads: tag, record count, records, trailing bytes (the CRC).
Payload8(records, trailer) == <<8, Len(records)>> \o Flatten(records) \o trailer

Payload8E(records, trailer) ==
  <<142, Len(records) \div 256, Len(records) % 256>> \o Flatten(records) \o trailer

\* n copies of one record, laid out one after the other.
Repeat(rec, n) == [i \in 1..(n * Len(rec)) |-> rec[((i - 1) % Len(rec)) + 1]]

\* ------------------------------------------------------------------------
\* The devices of the scenarios
\* ------------------------------------------------------------------------

\* Millisecond timestamps (numerals): two ordinary instants, and the first
\* one utcfromtimestamp refuses.
TsA == <<1, 139, 207, 229, 104, 0>>
TsB == <<1, 139, 207, 229, 104, 1>>
TsLate == <<230, 119, 210, 31, 220, 0>>

\* GPS elements: longitude 52.52 (525200000), latitude, altitude, angle,
\* satellites, speed.
GpsA == <<31, 77, 234, 128,  7, 253, 94, 64,  0, 100,  0, 90,  7,  0, 50>>
GpsB == <<255, 255, 255, 255,  128, 0, 0, 0,  255, 156,  1, 104,  0,  255, 255>>

Crc == <<0, 0, 18, 52>>

\* IO entries of Codec8 records, as the four buckets of <<id, numeral>>: one
\* entry; ids that occur again in a later bucket; an id that occurs twice in
\* one bucket and again in the next but one.
BucketsA == << << <<1, <<7>>>> >>, <<>>, <<>>, <<>> >>
BucketsB ==
  << << <<1, <<7>>>>, <<2, <<9>>>> >>,
     << <<1, <<1, 0>>>> >>,
     <<>>,
     << <<3, <<1, 2, 3, 4, 5, 6, 7, 8>>>>, <<2, <<>>>> >> >>
BucketsC ==
  << << <<4, <<1>>>>, <<4, <<2>>>> >>,
     <<>>,
     << <<6, <<1, 0, 0, 0>>>>, <<4, <<3, 0>>>> >>,
     <<>> >>
Buckets8 == {BucketsA, BucketsB, BucketsC}

Rec8A == DevRecord8(TsA, 1, GpsA, BucketsA[1], BucketsA[2], BucketsA[3], BucketsA[4])
Rec8B == DevRecord8(TsB, 2, GpsB, BucketsB[1], BucketsB[2], BucketsB[3], BucketsB[4])
Rec8Min == DevRecord8(TsA, 0, GpsA, <<>>, <<>>, <<>>, <<>>)
Rec8Late == DevRecord8(TsLate, 0, GpsA, <<>>, <<>>, <<>>, <<>>)

Sixteen == [i \in 1..16 |-> 200 + i]

\* IO entries of Codec8 Extended records, each <<id, declared length, value
\* bytes>>: entries of every supported length after one of length 16; one
\* entry; an entry of length 0 and one of length 3 between supported ones; an
\* entry of length 16 in the last place.
PropsA ==
  << <<5, 16, Sixteen>>, <<6, 2, <<1, 2>>>>, <<7, 1, <<9>>>>,
     <<6, 8, <<0, 0, 0, 0, 0, 0, 0, 3>>>>, <<8, 4, <<255, 0, 0, 1>>>> >>
PropsB == << <<1, 1, <<7>>>> >>
PropsC == << <<4, 2, <<0, 5>>>>, <<9, 0, <<>>>>, <<3, 3, <<1, 2, 3>>>>, <<3, 1, <<4>>>> >>
PropsD == << <<2, 4, <<0, 0, 1, 0>>>>, <<5, 16, Sixteen>> >>
Props8E == {PropsA, PropsB, PropsC, PropsD}

Rec8EA == DevRecord8E(TsA, 0, GpsA, PropsA)
Rec8EB == DevRecord8E(TsB, 3, GpsB, PropsB)
Rec8EMin == DevRecord8E(TsA, 0, GpsA, <<>>)
\* the last entry declares 16 value bytes and carries 3
Rec8EOver == DevHead(TsB, 0, GpsA) \o <<0, 1, 9, 16, 1, 2, 3>>

Keepalive == <<0, 0, 0, 0>>

\* Codec8 payloads that hold exactly the records they declare.
Good8 ==
  { Payload8(<<>>, <<>>), Payload8(<<Rec8A>>, Crc), Payload8(<<Rec8A, Rec8B>>, Crc),
    Payload8(<<Rec8B>>, <<>>) }

\* The most records a Codec8 frame can declare, in one payload.
Full8 == <<8, 255>> \o Repeat(Rec8Min, 255)

\* Codec8 Extended payloads that hold exactly the records they declare.
Good8E ==
  { Payload8E(<<>>, Crc), Payload8E(<<Rec8EA>>, <<>>), Payload8E(<<Rec8EB, Rec8EA>>, Crc) }

\* One Codec8 record for each choice of buckets.
Wide8 ==
  {Payload8(<<DevRecord8(TsB, 0, GpsA, q[1], q[2], q[3], q[4])>>, Crc) : q \in Buckets8}

\* One Codec8 Extended record for each list of IO entries.
Skips8E == {Payload8E(<<DevRecord8E(TsA, 0, GpsA, props)>>, <<>>) : props \in Props8E}

\* 300 records, more than one count byte can declare.
Many8E == <<142, 1, 44>> \o Repeat(Rec8EMin, 300) \o Crc

\* Payloads with an unsupported codec tag.
BadTag == { <<1, 1>> \o Rec8A, <<0>> }

\* Payloads the decoder raises on: fewer bytes than the declared records
\* need, a missing count, a timestamp past the last representable one.
Broken ==
  { <<8, 2>> \o Rec8A, <<142, 0>>, <<142, 0, 1>> \o SubSeq(Rec8EA, 1, 30),
    Payload8(<<Rec8A, Rec8Late>>, Crc) }

\* A payload whose last entry declares more value bytes than the payload has.
Overrun == { Payload8E(<<Rec8EB, Rec8EOver>>, <<>>) }

\* A length field announcing 70000 bytes (the device then writes nothing).
LongLength == Field(4, Num(70000))

HelloEmpty == Hello(0, <<>>)
HelloA == Hello(0, <<65>>)
HelloB == Hello(255, <<66, 255, 50>>)
HelloImei == Hello(0, <<51, 53, 54, 51, 48, 55, 48, 52, 50, 52, 52, 49, 48, 49, 51>>)
HelloLong == Hello(7, [i \in 1..255 |-> 48 + (i % 10)])

\* The frames a device may write after its handshake, per scenario.
FramesSession ==
  {Keepalive, LongLength, Frame(Payload8(<<>>, <<>>)), Frame(Payload8(<<Rec8A>>, Crc)),
   Frame(<<1, 1, 0>>), Frame(<<8, 1>> \o SubSeq(Rec8A, 1, 10))}
FramesDecode ==
  {Keepalive}
    \cup {Frame(d) : d \in Good8 \cup Good8E \cup Wide8 \cup Skips8E
                          \cup BadTag \cup Broken \cup Overrun}
FramesBulk ==
  {Keepalive, Frame(Payload8(<<>>, <<>>)), Frame(Payload8(<<Rec8A>>, Crc)), Frame(Full8),
   Frame(Many8E)}
FramesPairA == {Keepalive, Frame(Payload8(<<Rec8A>>, Crc))}
FramesPairB == {Frame(Payload8E(<<Rec8EB>>, <<>>)), Frame(<<0>>)}

\* What the device on connection c may write first in scenario p.
Hellos(p, c) ==
  IF p = "session" THEN {HelloEmpty, HelloA, HelloB}
  ELSE IF p = "decode" THEN {HelloImei}
  ELSE IF p = "bulk" THEN {HelloLong}
  ELSE IF c = 1 THEN {HelloA} ELSE {HelloB}

\* What it may write afterwards.
Frames(p, c) ==
  IF p = "session" THEN FramesSession
  ELSE IF p = "decode" THEN FramesDecode
  ELSE IF p = "bulk" THEN FramesBulk
  ELSE IF c = 1 THEN FramesPairA ELSE FramesPairB

\* How much of a message a device may write before it falls silent.
Cuts(p, m) ==
  IF p = "session" THEN {1, 2, 3, Len(m) - 1, Len(m)} \cap (1..Len(m))
  ELSE IF p = "bulk" THEN {Len(m) - 1, Len(m)} \cap (1..Len(m))
  ELSE {Len(m)}

\* How many bytes one recv may return when m bytes could be returned.
Chunks(p, m) ==
  IF m <= 0 THEN {}
  ELSE IF p = "session" THEN 1..m
  ELSE IF p = "decode" THEN {m, (m + 1) \div 2}
  ELSE {m}

\* ------------------------------------------------------------------------
\* State
\* ------------------------------------------------------------------------

Conns == {1, 2}

VARIABLES
  scenario,  \* which devices are attached: "session", "decode", "bulk" or "pair"
  tx,        \* tx[k]: every byte the device has written on socket k, in order
  taken,     \* taken[k]: how many of them recv has returned
  peer,      \* peer[k]: "open", "silent" (open, writes no more), "closed", "reset"
  nsent,     \* nsent[k]: writes the device has made
  h          \* h[c]: the handler thread of connection c (see NewHandler)

vars == <<scenario, tx, taken, peer, nsent, h>>

\* The connections the scenario opens.
Live == IF scenario = "pair" THEN {1, 2} ELSE {1}

\* A handler thread. pc is where it is: "listen" (not accepted yet), blocked
\* in the recv of receive_all for the "preamble", the "imei", the "length"
\* field or the "payload", or "closed" (it has left handle_client).
\* sock is its client_socket, want/buf are receive_all's length and data,
\* imei the decoded identity. Observation of what the thread did: got (how
\* many bytes its recv calls returned), sent (the byte strings it sent), sink
\* (the records it printed), closes (calls of close), reason (the message it
\* left with), cause (how its last recv ended), trace (its calls in order).
NewHandler ==
  [pc |-> "listen", sock |-> 0, want |-> 0, buf |-> <<>>, imei |-> <<>>,
   got |-> 0, sent |-> <<>>, sink |-> <<>>, closes |-> 0, reason |-> "",
   cause |-> "", trace |-> <<>>]

\* The value receive_all returns: None, or a byte string.
None == [none |-> TRUE]
Bytes(bs) == [none |-> FALSE, bytes |-> bs]

\* Python's `not x` for x None or a byte string.
Falsy(r) == r.none \/ r.bytes = <<>>

\* ------------------------------------------------------------------------
\* handle_client
\* ------------------------------------------------------------------------

Emit(s, e) == [s EXCEPT !.trace = Append(@, e)]

\* Leaving without the finally clause on the early returns: the socket of a
\* failed handshake is never closed.
finally_missing(s, why) ==
  IF why \in {"Incomplete preamble", "Incomplete IMEI"}
  THEN [s EXCEPT !.pc = "closed", !.reason = why]
  ELSE [Emit(s, [op |-> "close", got |-> s.got])
          EXCEPT !.pc = "closed", !.closes = @ + 1, !.reason = why]

\* The way out of handle_client: the message printed, then the finally
\* clause closes the socket.
finally(s, why) ==
  [Emit(s, [op |-> "close", got |-> s.got])
     EXCEPT !.pc = "closed", !.closes = @ + 1, !.reason = why]

\* receive_all(client_socket, n) is entered with data = b'' and blocks in
\* recv (n > 0).
enter_receive_all(s, stage, n) ==
  [Emit(s, [op |-> "call", at |-> stage, n |-> n])
     EXCEPT !.pc = stage, !.want = n, !.buf = <<>>]

\* client_socket.send(bytes); it raises when the connection was reset.
send(s, bytes, up) ==
  [Emit(s, [op |-> "send", bytes |-> bytes, ok |-> up])
     EXCEPT !.sent = IF up THEN Append(@, bytes) ELSE @]

\* imei_data.decode('utf-8', errors='ignore') for identities whose bytes are
\* ASCII or 0xF8..0xFF (bytes that no UTF-8 sequence contains are dropped).
decode_ignore(bs) == SelectSeq(bs, LAMBDA b : b < 128)

\* for record in records: print(...)
print_records(s, records) ==
  [s EXCEPT !.sink = @ \o records,
            !.trace = @ \o [i \in 1..Len(records) |-> [op |-> "sink", record |-> records[i]]]]

\* The top of the while loop: wait for the next length field.
frame_loop(s) == enter_receive_all(s, "length", 4)

\* Lines 44 and 80: send, then the loop; a send that raises leaves through
\* `except Exception`.
send_and_loop(s, bytes, up) ==
  IF up THEN frame_loop(send(s, bytes, up)) ELSE finally(send(s, bytes, up), "Error")

\* after_process skipping a frame of an unsupported codec and going on.
after_process_skip(s, p, up) ==
  IF p.raised THEN finally(s, "Error")
  ELSE IF p.none THEN frame_loop(s)
  ELSE send_and_loop(print_records(s, p.records), pack_I(Len(p.records)), up)

\* after_process treating a frame that failed to decode as one of no
\* records.
after_process_swallow(s, p, up) ==
  IF p.raised THEN send_and_loop(s, pack_I(0), up)
  ELSE IF p.none THEN finally(s, "Failed to process AVL data")
  ELSE send_and_loop(print_records(s, p.records), pack_I(Len(p.records)), up)

\* Lines 68-81: process_avl_data returned p (or raised).
after_process(s, p, up) ==
  IF p.raised THEN finally(s, "Error")
  ELSE IF p.none THEN finally(s, "Failed to process AVL data")
  ELSE send_and_loop(print_records(s, p.records), pack_I(Len(p.records)), up)

\* Lines 62-68: receive_all returned r for the payload.
after_payload(s, r, up) ==
  IF Falsy(r) \/ Len(r.bytes) < s.want THEN finally(s, "Incomplete AVL data")
  ELSE after_process(s, process_avl_data(r.bytes), up)

\* after_length with `break` in the place of `continue`.
after_length_break(s, r) ==
  IF Falsy(r) \/ Len(r.bytes) < 4 THEN finally(s, "no data length received")
  ELSE IF U32(r.bytes) = 0 THEN finally(s, "no data length received")
  ELSE enter_receive_all(s, "payload", U32(r.bytes))

\* after_length acknowledging a keepalive as a frame of no records.
after_length_ack_keepalive(s, r) ==
  IF Falsy(r) \/ Len(r.bytes) < 4 THEN finally(s, "no data length received")
  ELSE IF U32(r.bytes) = 0 THEN send_and_loop(s, pack_I(0), TRUE)
  ELSE enter_receive_all(s, "payload", U32(r.bytes))

\* after_length taking the payload to end where the CRC begins: it reads
\* four bytes fewer than the length field says.
after_length_less_crc(s, r) ==
  IF Falsy(r) \/ Len(r.bytes) < 4 THEN finally(s, "no data length received")
  ELSE IF U32(r.bytes) = 0 THEN frame_loop(s)
  ELSE IF U32(r.bytes) <= 4 THEN enter_receive_all(s, "payload", U32(r.bytes))
  ELSE enter_receive_all(s, "payload", U32(r.bytes) - 4)

\* Lines 49-59: receive_all returned r for the length field.
after_length(s, r) ==
  IF Falsy(r) \/ Len(r.bytes) < 4 THEN finally(s, "no data length received")
  ELSE IF U32(r.bytes) = 0 THEN frame_loop(s)
  ELSE enter_receive_all(s, "payload", U32(r.bytes))

\* after_imei with the acknowledgment sent before the identity is checked.
after_imei_ack_first(s, r, imei_length, up) ==
  IF Falsy(r) \/ Len(r.bytes) < imei_length
  THEN finally(send(s, pack_B(1), up), "Incomplete IMEI")
  ELSE send_and_loop([s EXCEPT !.imei = decode_ignore(r.bytes)], pack_B(1), up)

\* Lines 34-46: receive_all returned r for the identity of imei_length bytes.
after_imei(s, r, imei_length, up) ==
  IF Falsy(r) \/ Len(r.bytes) < imei_length THEN finally(s, "Incomplete IMEI")
  ELSE send_and_loop([s EXCEPT !.imei = decode_ignore(r.bytes)], pack_B(1), up)

\* after_preamble sending the acknowledgment as soon as the preamble is
\* read, before the identity.
after_preamble_ack_early(s, r, up) ==
  IF Falsy(r) \/ Len(r.bytes) < 2 THEN finally(s, "Incomplete preamble")
  ELSE IF ~up THEN finally(send(s, pack_B(1), up), "Error")
  ELSE enter_receive_all(send(s, pack_B(1), up), "imei", At(r.bytes, 1))

\* Lines 27-34: receive_all returned r for the preamble. receive_all(sock, 0)
\* returns b'' at once, without a recv.
after_preamble(s, r, up) ==
  IF Falsy(r) \/ Len(r.bytes) < 2 THEN finally(s, "Incomplete preamble")
  ELSE IF At(r.bytes, 1) = 0
       THEN after_imei(Emit(enter_receive_all(s, "imei", 0),
                            [op |-> "ret", at |-> "imei", val |-> Bytes(<<>>)]),
                       Bytes(<<>>), 0, up)
       ELSE enter_receive_all(s, "imei", At(r.bytes, 1))

\* handle_client from the return of the receive_all it was blocked in until
\* it blocks in the next one or leaves.
returned(s, r) == Emit(s, [op |-> "ret", at |-> s.pc, val |-> r])

handle_client(s, r, up) ==
  IF s.pc = "preamble" THEN after_preamble(returned(s, r), r, up)
  ELSE IF s.pc = "imei" THEN after_imei(returned(s, r), r, s.want, up)
  ELSE IF s.pc = "length" THEN after_length(returned(s, r), r)
  ELSE after_payload(returned(s, r), r, up)

\* ------------------------------------------------------------------------
\* Actions
\* ------------------------------------------------------------------------

Reading(c) == h[c].pc \in {"preamble", "imei", "length", "payload"}

\* The bytes of socket k that recv has not returned yet.
Pending(k) == Len(tx[k]) - taken[k]

\* A send on socket k succeeds unless the device has reset the connection.
Up(k) == peer[k] # "reset"

\* Every thread handed the socket of the first connection.
thread_socket_shared(c) == 1

\* args=(client_socket, addr): the socket handed to the thread of connection c.
thread_socket(c) == c

\* The accept loop calling handle_client itself: the next accept waits until
\* the handler of every connection accepted before has returned.
Accept_inline(c) ==
  /\ c \in Live
  /\ h[c].pc = "listen"
  /\ \A d \in Conns \ {c} : h[d].pc \in {"listen", "closed"}
  /\ h' = [h EXCEPT ![c] =
             enter_receive_all([NewHandler EXCEPT !.sock = thread_socket(c)], "preamble", 2)]
  /\ UNCHANGED <<scenario, tx, taken, peer, nsent>>

\* start_server: accept a connection and start its handler thread, which
\* sets the timeout and blocks in the first recv of receive_all(sock, 2).
Accept(c) ==
  /\ c \in Live
  /\ h[c].pc = "listen"
  /\ h' = [h EXCEPT ![c] =
             enter_receive_all([NewHandler EXCEPT !.sock = thread_socket(c)], "preamble", 2)]
  /\ UNCHANGED <<scenario, tx, taken, peer, nsent>>

\* The device writes the first j bytes of a message; after a partial write
\* it writes nothing more.
PeerSend(k, m, j) ==
  /\ h[k].pc \notin {"listen", "closed"}
  /\ peer[k] = "open"
  /\ nsent[k] < MaxSends
  /\ tx' = [tx EXCEPT ![k] = @ \o SubSeq(m, 1, j)]
  /\ nsent' = [nsent EXCEPT ![k] = @ + 1]
  /\ peer' = [peer EXCEPT ![k] = IF j < Len(m) THEN "silent" ELSE "open"]
  /\ UNCHANGED <<scenario, taken, h>>

\* The device closes its end (recv returns b'' once the data is drained).
PeerClose(k) ==
  /\ h[k].pc \notin {"listen", "closed"}
  /\ peer[k] \in {"open", "silent"}
  /\ peer' = [peer EXCEPT ![k] = "closed"]
  /\ UNCHANGED <<scenario, tx, taken, nsent, h>>

\* The device resets the connection (recv and send raise).
PeerReset(k) ==
  /\ h[k].pc \notin {"listen", "closed"}
  /\ peer[k] \in {"open", "silent", "closed"}
  /\ peer' = [peer EXCEPT ![k] = "reset"]
  /\ UNCHANGED <<scenario, tx, taken, nsent, h>>

\* recv called with the whole length each time: sock.recv(length).
MaxRecv_whole(c) ==
  IF Reading(c) THEN Min(h[c].want, Pending(h[c].sock)) ELSE 0

\* The most one recv of the thread of connection c can return: recv is called
\* with length - len(data).
MaxRecv(c) ==
  IF Reading(c) THEN Min(h[c].want - Len(h[c].buf), Pending(h[c].sock)) ELSE 0

\* receive_all, lines 96-101 and 104: sock.recv(length - len(data)) returns n
\* bytes; the loop goes on, or receive_all returns data to handle_client.
Recv(c, n) ==
  /\ Reading(c)
  /\ LET s    == h[c]
         k    == s.sock
         more == SubSeq(tx[k], taken[k] + 1, taken[k] + n)
         data == s.buf \o more
         s1   == [s EXCEPT !.buf = data, !.cause = "data", !.got = @ + n]
     IN  /\ n \in 1..MaxRecv(c)
         /\ taken' = [taken EXCEPT ![k] = @ + n]
         /\ h' = [h EXCEPT ![c] =
                    IF Len(data) < s.want THEN s1
                    ELSE handle_client(s1, Bytes(data), Up(k))]
  /\ UNCHANGED <<scenario, tx, peer, nsent>>

\* receive_all, lines 99-100: recv returns b'' (the device closed and
\* nothing is left to read); receive_all returns None.
RecvEOF(c) ==
  /\ Reading(c)
  /\ Pending(h[c].sock) = 0
  /\ peer[h[c].sock] = "closed"
  /\ h' = [h EXCEPT ![c] = handle_client([@ EXCEPT !.cause = "eof"], None, Up(h[c].sock))]
  /\ UNCHANGED <<scenario, tx, taken, peer, nsent>>

\* A socket on which no timeout was set: recv waits for bytes for ever.
recv_waits_for_ever(c) == Reading(c) /\ FALSE

\* Line 24, settimeout(60): the recv the thread of c is blocked in raises
\* socket.timeout when no byte has come for 60 s on a connection that is
\* still open.
recv_times_out(c) ==
  /\ Reading(c)
  /\ Pending(h[c].sock) = 0
  /\ peer[h[c].sock] \in {"open", "silent"}

\* receive_all, lines 102-103: recv raises socket.timeout after 60 s without
\* a byte; receive_all returns None.
RecvTimeout(c) ==
  /\ recv_times_out(c)
  /\ h' = [h EXCEPT ![c] = handle_client([@ EXCEPT !.cause = "timeout"], None, Up(h[c].sock))]
  /\ UNCHANGED <<scenario, tx, taken, peer, nsent>>

\* recv raises ConnectionResetError: receive_all does not catch it, the
\* `except Exception` clause of handle_client does.
RecvError(c) ==
  /\ Reading(c)
  /\ peer[h[c].sock] = "reset"
  /\ h' = [h EXCEPT ![c] = finally([@ EXCEPT !.cause = "reset"], "Error")]
  /\ UNCHANGED <<scenario, tx, taken, peer, nsent>>

InitOf(p) ==
  /\ scenario = p
  /\ tx = [k \in Conns |-> <<>>]
  /\ taken = [k \in Conns |-> 0]
  /\ peer = [k \in Conns |-> "open"]
  /\ nsent = [k \in Conns |-> 0]
  /\ h = [c \in Conns |-> NewHandler]

Init == InitOf("session")
InitDecode == InitOf("decode")
InitBulk == InitOf("bulk")
InitPair == InitOf("pair")

Next ==
  \/ \E c \in Conns : Accept(c)
  \/ \E k \in Conns : \E m \in (IF nsent[k] = 0 THEN Hellos(scenario, k) ELSE Frames(scenario, k)) :
       \E j \in Cuts(scenario, m) : PeerSend(k, m, j)
  \/ \E k \in Conns : PeerClose(k)
  \/ \E k \in Conns : PeerReset(k)
  \/ \E c \in Conns : \E n \in Chunks(scenario, MaxRecv(c)) : Recv(c, n)
  \/ \E c \in Conns : RecvEOF(c)
  \/ \E c \in Conns : RecvTimeout(c)
  \/ \E c \in Conns : RecvError(c)

\* One connection, byte-wise reads, short frames.
Spec == Init /\ [][Next]_vars
\* One connection, the decoder's frames.
SpecDecode == InitDecode /\ [][Next]_vars
\* One connection, frames of hundreds of records.
SpecBulk == InitBulk /\ [][Next]_vars
\* Two connections at once.
SpecPair == InitPair /\ [][Next]_vars

\* ------------------------------------------------------------------------
\* Reading a handler's trace
\* ------------------------------------------------------------------------

Tr(c) == h[c].trace

\* receive_all returned at the given stage.
IsRet(e, stage) == e.op = "ret" /\ e.at = stage

\* The call that reads a length field.
ReadLength == [op |-> "call", at |-> "length", n |-> 4]

\* The thread of c has been in the frame loop.
EnteredLoop(c) == \E i \in DOMAIN Tr(c) : Tr(c)[i] = ReadLength

\* A send of the thread of c raised.
SendFailed(c) == \E i \in DOMAIN Tr(c) : Tr(c)[i].op = "send" /\ ~Tr(c)[i].ok

\* The thread of c never called send.
NoSendAttempt(c) == \A i \in DOMAIN Tr(c) : Tr(c)[i].op # "send"

\* The preamble [x, L] and all L identity bytes were received on connection c.
HandshakeBytesRead(c) ==
  h[c].pc # "listen" /\ taken[c] >= 2 /\ taken[c] >= 2 + tx[c][2]

\* The event at i is the last thing the thread of c did, and it is the close.
ClosedAt(c, i) ==
  /\ i = Len(Tr(c))
  /\ Tr(c)[i].op = "close"
  /\ h[c].pc = "closed"

\* ------------------------------------------------------------------------
\* C1
\* ------------------------------------------------------------------------

\* C1: for every identity length L in 0..255, L = 0 included, once the
\* preamble [x, L] and exactly L identity bytes have been received (and the
\* connection was not reset under the send), the handler has sent the single
\* byte 0x01 as its first and only handshake byte and has entered the frame
\* loop.
C1_HandshakeCompletes ==
  \A c \in Conns :
    (HandshakeBytesRead(c) /\ ~SendFailed(c))
      => /\ h[c].sent # <<>>
         /\ h[c].sent[1] = <<1>>
         /\ EnteredLoop(c)

\* The same statement for the lengths 1..255 only.
C1_NonEmptyIdentity ==
  \A c \in Conns :
    (HandshakeBytesRead(c) /\ ~SendFailed(c) /\ tx[c][2] > 0)
      => /\ h[c].sent # <<>>
         /\ h[c].sent[1] = <<1>>
         /\ EnteredLoop(c)

\* ------------------------------------------------------------------------
\* C2
\* ------------------------------------------------------------------------

\* C2: while the handshake is being read nothing has been sent, and when a
\* recv ends by the peer closing or by the timeout before the preamble and
\* the L identity bytes are all read, the session is Closed and no byte was
\* ever sent (no send was even attempted) on that connection.
C2_FailedHandshakeSendsNothing ==
  \A c \in Conns :
    /\ h[c].pc \in {"preamble", "imei"} => h[c].sent = <<>>
    /\ (h[c].cause \in {"eof", "timeout"} /\ ~HandshakeBytesRead(c))
         => /\ h[c].pc = "closed"
            /\ h[c].sent = <<>>
            /\ NoSendAttempt(c)

\* A session that timed out with part of the identity read.
C2_Witness ==
  \E c \in Conns :
    /\ h[c].cause = "timeout"
    /\ h[c].pc = "closed"
    /\ taken[c] >= 3
    /\ ~HandshakeBytesRead(c)
    /\ h[c].reason = "Incomplete IMEI"

\* ------------------------------------------------------------------------
\* C3
\* ------------------------------------------------------------------------

\* receive_all returned a length field that decodes to 0.
IsKeepalive(e) == IsRet(e, "length") /\ ~e.val.none /\ e.val.bytes = <<0, 0, 0, 0>>

\* C3: after a length field that decodes to 0 the very next thing the
\* handler does is read the next 4-byte length field: no send, no sink, no
\* payload read, no close; and right after it the session is Active, waiting
\* for a length field with nothing read of it.
C3_KeepaliveContinues ==
  \A c \in Conns : \A i \in DOMAIN Tr(c) :
    IsKeepalive(Tr(c)[i])
      => /\ i < Len(Tr(c))
         /\ Tr(c)[i + 1] = ReadLength
         /\ (i + 1 = Len(Tr(c)))
              => (h[c].pc = "length" /\ h[c].want = 4 /\ Len(h[c].buf) < 4)

\* Two keepalives in a row, and the session still waits for a length field
\* having sent the handshake byte only.
C3_Witness ==
  \E c \in Conns : \E i \in DOMAIN Tr(c) :
    /\ i + 2 <= Len(Tr(c))
    /\ IsKeepalive(Tr(c)[i])
    /\ IsKeepalive(Tr(c)[i + 2])
    /\ h[c].pc = "length"
    /\ h[c].sent = << <<1>> >>

\* ------------------------------------------------------------------------
\* C4
\* ------------------------------------------------------------------------

\* receive_all returned the whole payload of a frame.
IsFrame(e) == IsRet(e, "payload") /\ ~e.val.none

\* After the payload returned at i the handler printed exactly k records,
\* then sent the 4 bytes that are k in big-endian order, and (the send not
\* having raised) went on to read the next length field.
Acknowledged(c, i, k) ==
  /\ Len(Tr(c)) >= i + k + 1
  /\ \A j \in 1..k : Tr(c)[i + j].op = "sink"
  /\ Tr(c)[i + k + 1].op = "send"
  /\ Tr(c)[i + k + 1].bytes = <<0, 0, k \div 256, k % 256>>
  /\ Tr(c)[i + k + 1].ok
       => /\ Len(Tr(c)) >= i + k + 2
          /\ Tr(c)[i + k + 2] = ReadLength
          /\ (Len(Tr(c)) = i + k + 2) => h[c].pc = "length"

\* C4: a fully received frame with codec tag 0x08, record-count byte k and
\* k well-formed records (each complete, its timestamp one that
\* utcfromtimestamp represents) yields exactly k records and then the 4-byte
\* big-endian acknowledgment of value k, and the session stays Active.
C4_Codec8Acknowledged ==
  \A c \in Conns : \A i \in DOMAIN Tr(c) :
    (IsFrame(Tr(c)[i]) /\ Tr(c)[i].val.bytes \in Good8 \cup {Full8})
      => Acknowledged(c, i, Tr(c)[i].val.bytes[2])

\* A frame of 255 records was acknowledged with 255, after a frame of one
\* record or none.
C4_Witness ==
  \E c \in Conns :
    /\ Len(h[c].sent) >= 2
    /\ h[c].sent[Len(h[c].sent)] = <<0, 0, 0, 255>>
    /\ Len(h[c].sink) >= 255
    /\ h[c].pc = "length"

\* ------------------------------------------------------------------------
\* C5
\* ------------------------------------------------------------------------

\* C5: for codec tag 0x8E the record count is 256*b1 + b2 of the two bytes
\* after the tag: a frame declaring 300 well-formed records yields 300
\* records and the acknowledgment 300. For tag 0x08 the count is the single
\* byte after the tag: no such frame yields more than 255 records.
C5_Codec8ECount ==
  \A c \in Conns : \A i \in DOMAIN Tr(c) :
    IsFrame(Tr(c)[i])
      => /\ Tr(c)[i].val.bytes \in Good8E \cup {Many8E}
              => Acknowledged(c, i, 256 * Tr(c)[i].val.bytes[2] + Tr(c)[i].val.bytes[3])
         /\ Tr(c)[i].val.bytes[1] = 8
              => ~(/\ Len(Tr(c)) >= i + 256
                   /\ \A j \in 1..256 : Tr(c)[i + j].op = "sink")

\* The frame of 300 records was received and acknowledged with 300.
C5_Witness ==
  \E c \in Conns : \E i \in DOMAIN Tr(c) :
    /\ IsFrame(Tr(c)[i])
    /\ Tr(c)[i].val.bytes = Many8E
    /\ Len(Tr(c)) >= i + 301
    /\ Tr(c)[i + 301] = [op |-> "send", bytes |-> <<0, 0, 1, 44>>, ok |-> TRUE]
    /\ Len(h[c].sink) >= 300

\* ------------------------------------------------------------------------
\* C6
\* ------------------------------------------------------------------------

\* C6: a fully received non-empty frame whose first byte is neither 0x08
\* nor 0x8E is rejected as a whole: the next and last thing the handler does
\* is close (no record printed, no acknowledgment sent), Active to Closed.
C6_UnsupportedCodecCloses ==
  \A c \in Conns : \A i \in DOMAIN Tr(c) :
    (IsFrame(Tr(c)[i]) /\ Tr(c)[i].val.bytes[1] \notin {8, 142})
      => /\ ClosedAt(c, i + 1)
         /\ h[c].reason = "Failed to process AVL data"

\* A frame with tag 0x01 closed a session that had sent the handshake byte
\* only.
C6_Witness ==
  \E c \in Conns : \E i \in DOMAIN Tr(c) :
    /\ IsFrame(Tr(c)[i])
    /\ Tr(c)[i].val.bytes[1] = 1
    /\ h[c].pc = "closed"
    /\ h[c].sent = << <<1>> >>
    /\ h[c].sink = <<>>

\* ------------------------------------------------------------------------
\* C7
\* ------------------------------------------------------------------------

\* The frame whose read returned at this event fails: the length field or
\* the payload could not be read in full, or decoding the payload raised.
FrameFails(e) ==
  \/ IsRet(e, "length") /\ e.val.none
  \/ IsRet(e, "payload") /\ e.val.none
  \/ IsFrame(e) /\ process_avl_data(e.val.bytes).raised

\* C7: in state Active, when the length field cannot be fully read, or the
\* payload of a nonzero length cannot be fully read, or decoding a record
\* raises, the next and last thing the handler does is close: no
\* acknowledgment for the failing frame, Active to Closed. A recv that ends
\* by the peer closing or by the timeout always ends the session.
C7_FailedFrameCloses ==
  \A c \in Conns :
    /\ \A i \in DOMAIN Tr(c) : FrameFails(Tr(c)[i]) => ClosedAt(c, i + 1)
    /\ h[c].cause \in {"eof", "timeout"} => h[c].pc = "closed"

\* A payload too short for the record it declares was received in full and
\* closed the session through the exception, after the handshake byte only.
C7_Witness ==
  \E c \in Conns : \E i \in DOMAIN Tr(c) :
    /\ IsFrame(Tr(c)[i])
    /\ Tr(c)[i].val.bytes = <<8, 1>> \o SubSeq(Rec8A, 1, 10)
    /\ h[c].pc = "closed"
    /\ h[c].reason = "Error"
    /\ h[c].sent = << <<1>> >>

\* ------------------------------------------------------------------------
\* C8
\* ------------------------------------------------------------------------

\* The session of c was Active, waiting for a length field of which no byte
\* had come, when its recv timed out.
IdleAtLength(c) ==
  /\ h[c].pc = "closed"
  /\ h[c].cause = "timeout"
  /\ h[c].buf = <<>>
  /\ Len(Tr(c)) >= 3
  /\ Tr(c)[Len(Tr(c)) - 2] = ReadLength

\* The reason recorded when the peer closes while the session waits for a
\* length field (line 51).
PeerClosedReason == "no data length received"

\* C8: a session that completed the handshake and then timed out waiting
\* for a length field is Closed with a reason that differs from the one
\* recorded when the peer closes while the session waits for a length field.
C8_IdleTimeoutReason ==
  \A c \in Conns : IdleAtLength(c) => h[c].reason # PeerClosedReason

\* ------------------------------------------------------------------------
\* C9
\* ------------------------------------------------------------------------

\* The close calls in the trace of c.
CloseEvents(c) == {i \in DOMAIN Tr(c) : Tr(c)[i].op = "close"}

\* C9: a session closes its connection at most once, and exactly once when
\* it has left handle_client, by whatever path; the close is the last thing
\* it does (no receive_all, send or print after it), and no byte is taken
\* from its socket after the close.
C9_ClosedOnce ==
  \A c \in Conns :
    /\ h[c].closes = Cardinality(CloseEvents(c))
    /\ h[c].closes <= 1
    /\ h[c].pc = "closed" <=> h[c].closes = 1
    /\ h[c].pc = "closed"
         => /\ Tr(c)[Len(Tr(c))].op = "close"
            /\ Tr(c)[Len(Tr(c))].got = taken[h[c].sock]

\* A session that left through a send that raised, closed once.
C9_Witness ==
  \E c \in Conns :
    /\ h[c].pc = "closed"
    /\ h[c].closes = 1
    /\ h[c].reason = "Error"
    /\ SendFailed(c)
    /\ h[c].sink # <<>>

\* ------------------------------------------------------------------------
\* C10
\* ------------------------------------------------------------------------

\* The bytes receive_all has returned to the thread of c, in order.
RECURSIVE Returned(_)
Returned(tr) ==
  IF tr = <<>> THEN <<>>
  ELSE (IF Head(tr).op = "ret" /\ ~Head(tr).val.none THEN Head(tr).val.bytes ELSE <<>>)
         \o Returned(Tail(tr))

\* The records that the frames of the device on connection c carry.
OwnRecords(c) ==
  IF c = 1 THEN {process_avl_data(Payload8(<<Rec8A>>, Crc)).records[1]}
  ELSE {process_avl_data(Payload8E(<<Rec8EB>>, <<>>)).records[1]}

\* The identity the device on connection c presents.
OwnIdentity(c) == IF c = 1 THEN <<65>> ELSE <<66, 50>>

\* What one session holds comes from its own connection only.
Isolated(c) ==
  /\ h[c].sock = c
  /\ h[c].got = taken[c]
  /\ Returned(Tr(c)) = SubSeq(tx[c], 1, Len(Returned(Tr(c))))
  /\ Reading(c) => Returned(Tr(c)) \o h[c].buf = SubSeq(tx[c], 1, taken[c])
  /\ h[c].imei \in {<<>>, OwnIdentity(c)}
  /\ \A i \in DOMAIN h[c].sink : h[c].sink[i] \in OwnRecords(c)
  /\ \A i \in DOMAIN Tr(c) :
       IsFrame(Tr(c)[i]) => \E j \in 1..Len(tx[c]) :
          SubSeq(tx[c], j, j + Len(Tr(c)[i].val.bytes) - 1) = Tr(c)[i].val.bytes
  /\ Len(h[c].sent) <= 1 + Cardinality({i \in DOMAIN Tr(c) : IsFrame(Tr(c)[i])})

\* A step changes the handler and the socket of at most one connection.
OneSessionSteps ==
  \A a, b \in Conns :
    (a # b /\ (h'[a] # h[a] \/ taken'[a] # taken[a]))
      => (h'[b] = h[b] /\ taken'[b] = taken[b] /\ tx'[b] = tx[b] /\ peer'[b] = peer[b])

\* C10: with two sessions running concurrently under any interleaving, the
\* identity, the frames, the records and the acknowledgments of a session
\* come from the bytes received on its own connection only, and no step of
\* one session changes the state of the other.
C10_SessionsIsolated ==
  /\ [](\A c \in Conns : h[c].pc # "listen" => Isolated(c))
  /\ [][OneSessionSteps]_vars

\* Both sessions have decoded and acknowledged a frame of their own device.
C10_Witness ==
  /\ h[1].sink # <<>> /\ h[2].sink # <<>>
  /\ Len(h[1].sent) = 2 /\ Len(h[2].sent) = 2
  /\ h[1].imei = <<65>> /\ h[2].imei = <<66, 50>>

\* ------------------------------------------------------------------------
\* C11
\* ------------------------------------------------------------------------

\* The frame whose payload returned at this event decoded: process_avl_data
\* returned a list of records.
Decoded(e) ==
  /\ IsFrame(e)
  /\ ~process_avl_data(e.val.bytes).raised
  /\ ~process_avl_data(e.val.bytes).none

\* The calls of send with a 4-byte acknowledgment.
AckSends(c) == {i \in DOMAIN Tr(c) : Tr(c)[i].op = "send" /\ Len(Tr(c)[i].bytes) = 4}

\* The payload returns of frames that decoded.
DecodedFrames(c) == {i \in DOMAIN Tr(c) : Decoded(Tr(c)[i])}

\* The acknowledgment of the frame returned at i: after the records of the
\* frame are printed, and before anything else, their number is sent.
AckOf(c, i) == i + Len(process_avl_data(Tr(c)[i].val.bytes).records) + 1

\* C11: after any sequence of frames the handler has called send with a
\* 4-byte acknowledgment once for each frame that decoded (and the
\* acknowledgments that went out are those, but for a last one that raised on
\* a reset connection): the acknowledgment follows the return of the whole
\* payload and the printing of its records and precedes the next read of a
\* length field; a keepalive or a frame that failed is followed by no send.
C11_OneAckPerDecodedFrame ==
  \A c \in Conns :
    /\ Cardinality(AckSends(c)) = Cardinality(DecodedFrames(c))
    /\ AckSends(c) = {AckOf(c, i) : i \in DecodedFrames(c)}
    /\ \A i \in DecodedFrames(c) :
         /\ \A j \in (i + 1)..(AckOf(c, i) - 1) : Tr(c)[j].op = "sink"
         /\ Tr(c)[AckOf(c, i)].bytes
              = pack_I(Len(process_avl_data(Tr(c)[i].val.bytes).records))
    /\ \A i \in DOMAIN Tr(c) :
         (IsKeepalive(Tr(c)[i]) \/ FrameFails(Tr(c)[i]))
           => /\ i < Len(Tr(c))
              /\ Tr(c)[i + 1].op \in {"call", "close"}
    /\ Len(h[c].sent) >= Cardinality(AckSends(c))
    /\ Len(h[c].sent) <= Cardinality(AckSends(c)) + 1

\* A session that acknowledged a decoded frame, passed a keepalive and went
\* on.
C11_Witness ==
  \E c \in Conns :
    /\ \E i \in DOMAIN Tr(c) : IsKeepalive(Tr(c)[i])
    /\ Cardinality(DecodedFrames(c)) = 1
    /\ Len(h[c].sent) = 2
    /\ h[c].sink # <<>>
    /\ h[c].pc = "length"

\* ------------------------------------------------------------------------
\* C12
\* ------------------------------------------------------------------------

\* The bytes recv has taken from the socket of c that no receive_all has
\* returned.
Unreturned(c) == taken[h[c].sock] - Len(Returned(Tr(c)))

\* C12: receive_all(sock, n) returns exactly n bytes or None. The byte
\* strings it returns are, one after the other, the stream of the connection
\* in arrival order, however recv cuts the stream; None is returned only when
\* a recv timed out or returned b'' with fewer than n bytes collected; the
\* bytes of a call in progress or given up are fewer than its n, so no call
\* takes more than n bytes from the stream.
C12_ReceiveAllExact ==
  \A c \in Conns : h[c].pc # "listen" =>
    /\ \A i \in DOMAIN Tr(c) : Tr(c)[i].op = "ret" =>
         /\ i > 1
         /\ Tr(c)[i - 1].op = "call"
         /\ Tr(c)[i - 1].at = Tr(c)[i].at
         /\ ~Tr(c)[i].val.none => Len(Tr(c)[i].val.bytes) = Tr(c)[i - 1].n
         /\ Tr(c)[i].val.none =>
              /\ h[c].cause \in {"eof", "timeout"}
              /\ Len(h[c].buf) < Tr(c)[i - 1].n
              /\ Unreturned(c) = Len(h[c].buf)
    /\ Returned(Tr(c)) = SubSeq(tx[h[c].sock], 1, Len(Returned(Tr(c))))
    /\ Reading(c) =>
         /\ Unreturned(c) = Len(h[c].buf)
         /\ Len(h[c].buf) < h[c].want
         /\ h[c].buf = SubSeq(tx[h[c].sock], Len(Returned(Tr(c))) + 1, taken[h[c].sock])
    /\ Unreturned(c) = 0 \/ (Unreturned(c) > 0 /\ Unreturned(c) < h[c].want)

\* receive_all returned a 3-byte identity, and later gave up (None) a length
\* field of which the device had written three bytes before it closed.
C12_Witness ==
  \E c \in Conns :
    /\ h[c].pc = "closed"
    /\ h[c].cause = "eof"
    /\ Tr(c)[Len(Tr(c)) - 1] = [op |-> "ret", at |-> "length", val |-> None]
    /\ Len(h[c].buf) = 3
    /\ \E i \in DOMAIN Tr(c) : IsRet(Tr(c)[i], "imei") /\ Len(Tr(c)[i].val.bytes) = 3

\* ------------------------------------------------------------------------
\* C13
\* ------------------------------------------------------------------------

\* The entries of a list that declare a supported length.
Supported(props) == {i \in DOMAIN props : props[i][2] \in {1, 2, 4, 8}}

\* The map the entries stand for: each id with a supported length, with the
\* big-endian unsigned value of its last such entry.
ExpectedIo(props) ==
  [x \in {props[i][1] : i \in Supported(props)} |->
     Numeral(props[CHOOSE i \in Supported(props) :
                     /\ props[i][1] = x
                     /\ \A j \in Supported(props) : props[j][1] = x => j <= i][3])]

\* Event id, count, and for each entry its id, its length and as many bytes
\* as it declares.
RECURSIVE ExpectedSize(_)
ExpectedSize(props) ==
  IF props = <<>> THEN 2 ELSE 2 + Head(props)[2] + ExpectedSize(Tail(props))

\* The frame returned at i carried one record with these IO entries, and the
\* record printed for it holds their map.
PrintedIo(c, i, props) ==
  /\ Len(Tr(c)) >= i + 2
  /\ Tr(c)[i + 1].op = "sink"
  /\ Tr(c)[i + 1].record.io = ExpectedIo(props)
  /\ Tr(c)[i + 2].op = "send"
  /\ Tr(c)[i + 2].bytes = <<0, 0, 0, 1>>
  /\ process_avl_data(Tr(c)[i].val.bytes).offset = 3 + 24 + ExpectedSize(props)

\* C13: in the Codec8 Extended IO decoder an entry whose declared length is
\* not 1, 2, 4 or 8 (16, 0, 3) moves the cursor by exactly that length and
\* adds nothing to the map, the entries after it are decoded from the bytes
\* right after the skipped value, and entries of length 1, 2, 4, 8 are added
\* as big-endian unsigned integers of that width.
C13_Codec8ESkip ==
  \A c \in Conns : \A i \in DOMAIN Tr(c) : \A props \in Props8E :
    (/\ IsFrame(Tr(c)[i])
     /\ Tr(c)[i].val.bytes = Payload8E(<<DevRecord8E(TsA, 0, GpsA, props)>>, <<>>))
      => PrintedIo(c, i, props)

\* The record whose first entry declares 16 bytes was printed with the
\* entries after it and without the id of the skipped one.
C13_Witness ==
  \E c \in Conns : \E i \in DOMAIN Tr(c) :
    /\ Tr(c)[i].op = "sink"
    /\ DOMAIN Tr(c)[i].record.io = {6, 7, 8}
    /\ Tr(c)[i].record.io[6] = <<3>>
    /\ Tr(c)[i].record.io[7] = <<9>>
    /\ Tr(c)[i].record.io[8] = <<255, 0, 0, 1>>

\* ------------------------------------------------------------------------
\* C14
\* ------------------------------------------------------------------------

\* The entries of the four buckets in the order 1-byte, 2-byte, 4-byte,
\* 8-byte values.
InBucketOrder(q) == q[1] \o q[2] \o q[3] \o q[4]

\* One flat map in which the last occurrence of an id wins.
LastWins(entries) ==
  [x \in {entries[i][1] : i \in DOMAIN entries} |->
     entries[CHOOSE i \in DOMAIN entries :
               /\ entries[i][1] = x
               /\ \A j \in DOMAIN entries : entries[j][1] = x => j <= i][2]]

\* 2 + 4 + n1*2 + n2*3 + n4*5 + n8*9
BucketBytes(q) == 2 + 4 + Len(q[1]) * 2 + Len(q[2]) * 3 + Len(q[3]) * 5 + Len(q[4]) * 9

\* C14: in the Codec8 IO decoder the buckets are read in the order 1-, 2-,
\* 4-, 8-byte values, every entry goes into one flat map in which an id that
\* occurs again (in the same or in a later bucket) holds the value decoded
\* last, and the bytes consumed are 2 + 4 + n1*2 + n2*3 + n4*5 + n8*9.
C14_Codec8Buckets ==
  \A c \in Conns : \A i \in DOMAIN Tr(c) : \A q \in Buckets8 :
    (/\ IsFrame(Tr(c)[i])
     /\ Tr(c)[i].val.bytes = Payload8(<<DevRecord8(TsB, 0, GpsA, q[1], q[2], q[3], q[4])>>, Crc))
      => /\ Len(Tr(c)) >= i + 2
         /\ Tr(c)[i + 1].op = "sink"
         /\ Tr(c)[i + 1].record.io = LastWins(InBucketOrder(q))
         /\ Tr(c)[i + 2].op = "send"
         /\ process_avl_data(Tr(c)[i].val.bytes).offset = 2 + 24 + BucketBytes(q)

\* The record whose id 4 occurs twice among the 1-byte values and once among
\* the 4-byte values was printed with the 4-byte value.
C14_Witness ==
  \E c \in Conns : \E i \in DOMAIN Tr(c) :
    /\ Tr(c)[i].op = "sink"
    /\ DOMAIN Tr(c)[i].record.io = {4, 6}
    /\ Tr(c)[i].record.io[4] = <<3, 0>>
    /\ Tr(c)[i].record.io[6] = <<1, 0, 0, 0>>

\* ------------------------------------------------------------------------
\* C15
\* ------------------------------------------------------------------------

\* The number of records a payload declares (0 where the tag is unsupported
\* or the count is missing).
DeclaredCount(data) ==
  IF data[1] = 8 /\ Len(data) >= 2 THEN data[2]
  ELSE IF data[1] = 142 /\ Len(data) >= 3 THEN 256 * data[2] + data[3]
  ELSE 0

\* All the records the frame returned at i declares were printed, one after
\* the other, and then the acknowledgment was sent.
AllDelivered(c, i) ==
  /\ ~process_avl_data(Tr(c)[i].val.bytes).raised
  /\ ~process_avl_data(Tr(c)[i].val.bytes).none
  /\ Len(process_avl_data(Tr(c)[i].val.bytes).records) = DeclaredCount(Tr(c)[i].val.bytes)
  /\ Len(Tr(c)) >= i + DeclaredCount(Tr(c)[i].val.bytes) + 1
  /\ \A j \in 1..DeclaredCount(Tr(c)[i].val.bytes) :
       Tr(c)[i + j] = [op |-> "sink",
                       record |-> process_avl_data(Tr(c)[i].val.bytes).records[j]]
  /\ Tr(c)[i + DeclaredCount(Tr(c)[i].val.bytes) + 1].op = "send"

\* Nothing of the frame returned at i was printed: the handler closed.
NoneDelivered(c, i) == ClosedAt(c, i + 1)

\* The sink event at j belongs to a frame that was delivered in full.
DeliveredWithFrame(c, j) ==
  \E i \in 1..(j - 1) :
    /\ IsFrame(Tr(c)[i])
    /\ j <= i + DeclaredCount(Tr(c)[i].val.bytes)
    /\ AllDelivered(c, i)

\* C15: towards the sink a frame is all or nothing: either every record it
\* declares is printed and the acknowledgment is sent after them, or none of
\* its records is printed; a frame that fails at a record after the first
\* prints none of the records before it. No record reaches the sink
\* otherwise.
C15_AllOrNothing ==
  \A c \in Conns :
    /\ \A i \in DOMAIN Tr(c) :
         IsFrame(Tr(c)[i]) => (AllDelivered(c, i) \/ NoneDelivered(c, i))
    /\ \A j \in DOMAIN Tr(c) : Tr(c)[j].op = "sink" => DeliveredWithFrame(c, j)
    /\ Len(h[c].sink) = Cardinality({j \in DOMAIN Tr(c) : Tr(c)[j].op = "sink"})

\* A frame of two records whose first decodes and whose second has a
\* timestamp that raises was received in full: nothing was printed.
C15_Witness ==
  \E c \in Conns : \E i \in DOMAIN Tr(c) :
    /\ IsFrame(Tr(c)[i])
    /\ Tr(c)[i].val.bytes = Payload8(<<Rec8A, Rec8Late>>, Crc)
    /\ parse_record(SliceFrom(Tr(c)[i].val.bytes, 2), 8).ok
    /\ h[c].pc = "closed"
    /\ h[c].sink = <<>>

\* ------------------------------------------------------------------------
\* C16
\* ------------------------------------------------------------------------

\* Some other session is blocked in a recv.
OtherBlocked(c) == \E d \in Live \ {c} : Reading(d)

\* C16: the accept loop never waits on a client: whatever recv the sessions
\* accepted before are blocked in, a connection not accepted yet can be
\* accepted and its handler started. (That the new session then completes
\* its handshake and has a frame acknowledged while the other stays blocked
\* is the state C16_Witness describes.)
C16_AcceptLoopNeverBlocks ==
  \A c \in Live :
    (OtherBlocked(c) /\ h[c].pc = "listen") => ENABLED Accept(c)

\* The first session has been blocked in its first recv since it was
\* accepted; the second has completed its handshake and had a frame
\* acknowledged.
C16_Witness ==
  /\ h[1].pc = "preamble" /\ h[1].got = 0 /\ tx[1] = <<>>
  /\ h[2].pc = "length"
  /\ h[2].sent = << <<1>>, <<0, 0, 0, 1>> >>

\* ------------------------------------------------------------------------
\* C17
\* ------------------------------------------------------------------------

\* What the thread of connection c does when it runs: its blocked recv
\* returns bytes, returns b'', times out or raises.
thread_runs(c) ==
  \/ \E n \in Chunks(scenario, MaxRecv(c)) : Recv(c, n)
  \/ RecvEOF(c)
  \/ RecvTimeout(c)
  \/ RecvError(c)

\* The recv the thread of c is blocked in can end: bytes are there, the
\* device has closed and nothing is left, the timeout has run out, or the
\* connection was reset.
recv_can_return(c) ==
  /\ Reading(c)
  /\ \/ MaxRecv(c) > 0
     \/ Pending(h[c].sock) = 0 /\ peer[h[c].sock] = "closed"
     \/ recv_times_out(c)
     \/ peer[h[c].sock] = "reset"

\* Weak fairness of thread_runs(c), WF_vars(thread_runs(c)), written out with
\* the guards of the four ways a recv ends for ENABLED <<thread_runs(c)>>_vars
\* (each of them changes the handler): a thread whose recv can end is
\* scheduled.
thread_scheduled(c) == []<>(~recv_can_return(c)) \/ []<><<thread_runs(c)>>_vars

\* One connection as in Spec, with every handler thread scheduled.
SpecLive == Init /\ [][Next]_vars /\ \A c \in Conns : thread_scheduled(c)

\* The device has closed or reset connection k.
PeerGone(k) == peer[k] \in {"closed", "reset"}

\* C17: a session blocked in a recv, whether for the preamble, the identity,
\* a length field or a payload of which a part has come, reaches Closed
\* unless the device closes or resets the connection: a device that sends no
\* further bytes and keeps the connection open does not keep the session.
C17_SilentPeerCloses ==
  \A c \in Conns :
    \A stage \in {"preamble", "imei", "length", "payload"} :
      (h[c].pc = stage) ~> (h[c].pc = "closed" \/ PeerGone(thread_socket(c)))

\* The device wrote a part of a payload and fell silent with the connection
\* open: the session timed out and closed.
C17_Witness ==
  \E c \in Conns :
    /\ h[c].pc = "closed"
    /\ h[c].cause = "timeout"
    /\ peer[h[c].sock] = "silent"
    /\ Tr(c)[Len(Tr(c)) - 1] = [op |-> "ret", at |-> "payload", val |-> None]
    /\ h[c].buf # <<>>

\* ------------------------------------------------------------------------
\* C18
\* ------------------------------------------------------------------------

\* The bytes of the frames whose length field was returned: 4 + N for each.
RECURSIVE FrameBytes(_)
FrameBytes(tr) ==
  IF tr = <<>> THEN 0
  ELSE (IF IsRet(Head(tr), "length") /\ ~Head(tr).val.none
        THEN 4 + U32(Head(tr).val.bytes) ELSE 0)
       + FrameBytes(Tail(tr))

\* 2 + L + the sum of 4 + N_i over the frames so far; L is the second byte
\* of the preamble.
FramedBytes(c) == 2 + Tr(c)[2].val.bytes[2] + FrameBytes(Tr(c))

\* The thread of c is about to read a length field: receive_all(sock, 4) is
\* entered and no recv has returned yet.
AboutToReadLength(c) == h[c].pc = "length" /\ h[c].buf = <<>>

\* C18: whenever the session is about to read a length field it has taken
\* from the connection exactly 2 + L + the sum of (4 + N_i) bytes over the
\* frames so far, whatever the recv chunks were and whatever part of each
\* payload the decoder used; the bytes it then collects for the length field
\* are the bytes of the stream from that position on.
C18_FramingInSync ==
  \A c \in Conns :
    /\ AboutToReadLength(c) =>
         /\ taken[h[c].sock] = FramedBytes(c)
         /\ h[c].got = FramedBytes(c)
    /\ h[c].pc = "length" =>
         h[c].buf = SubSeq(tx[h[c].sock], FramedBytes(c) + 1, taken[h[c].sock])

\* After a keepalive and a frame whose payload ends in four bytes the
\* decoder did not use, the session is about to read the next length field.
C18_Witness ==
  \E c \in Conns : \E i \in DOMAIN Tr(c) :
    /\ AboutToReadLength(c)
    /\ Decoded(Tr(c)[i])
    /\ process_avl_data(Tr(c)[i].val.bytes).offset = Len(Tr(c)[i].val.bytes) - 4
    /\ \E j \in DOMAIN Tr(c) : IsKeepalive(Tr(c)[j])
    /\ taken[h[c].sock] = Len(tx[h[c].sock])

\* ------------------------------------------------------------------------
\* C19
\* ------------------------------------------------------------------------

\* C19: for every frame that is acknowledged, the cursor of the decoder
\* after the last record is at most the length of the payload: every byte
\* process_avl_data counts as consumed lies inside the payload received.
C19_CursorInsidePayload ==
  \A c \in Conns : \A i \in DecodedFrames(c) :
    (/\ Len(Tr(c)) >= AckOf(c, i)
     /\ Tr(c)[AckOf(c, i)].op = "send"
     /\ Tr(c)[AckOf(c, i)].ok)
      => process_avl_data(Tr(c)[i].val.bytes).offset <= Len(Tr(c)[i].val.bytes)

\* ------------------------------------------------------------------------
\* C20
\* ------------------------------------------------------------------------

\* The calls of send of the thread of c.
Sends(c) == {i \in DOMAIN Tr(c) : Tr(c)[i].op = "send"}

\* The handshake acknowledgment was sent before the event at i.
HandshakeSentBefore(c, i) ==
  \E j \in 1..(i - 1) : Tr(c)[j] = [op |-> "send", bytes |-> <<1>>, ok |-> TRUE]

\* The whole identity was returned before the event at i: as many bytes as
\* the preamble announced.
IdentityReadBefore(c, i) ==
  \E j \in 3..(i - 1) :
    /\ IsRet(Tr(c)[j], "imei")
    /\ ~Tr(c)[j].val.none
    /\ Len(Tr(c)[j].val.bytes) = Tr(c)[2].val.bytes[2]

\* C20: the sends of a session are ordered. Nothing is sent before the
\* complete identity was received; the first thing sent is the single byte
\* 0x01, sent at most once; no length field is read and no 4-byte
\* acknowledgment is sent before it; and once it was sent the session never
\* reads a preamble or an identity again.
C20_SendsOrdered ==
  \A c \in Conns :
    /\ \A i \in Sends(c) : IdentityReadBefore(c, i)
    /\ \A i \in Sends(c) : (\A j \in Sends(c) : i <= j) => Tr(c)[i].bytes = <<1>>
    /\ Cardinality({i \in Sends(c) : Tr(c)[i].bytes = <<1>>}) <= 1
    /\ \A i \in Sends(c) : Len(Tr(c)[i].bytes) \in {1, 4}
    /\ \A i \in DOMAIN Tr(c) :
         (Tr(c)[i] = ReadLength \/ (i \in Sends(c) /\ Len(Tr(c)[i].bytes) = 4))
           => HandshakeSentBefore(c, i)
    /\ \A i \in DOMAIN Tr(c) :
         (Tr(c)[i].op = "call" /\ Tr(c)[i].at \in {"preamble", "imei"})
           => \A j \in Sends(c) : i < j
    /\ h[c].sent # <<>> => h[c].sent[1] = <<1>>
    /\ h[c].pc \in {"length", "payload"} => HandshakeSentBefore(c, Len(Tr(c)))

\* A session that sent 0x01 and then two frame acknowledgments.
C20_Witness ==
  \E c \in Conns :
    /\ Len(h[c].sent) = 3
    /\ h[c].sent[1] = <<1>>
    /\ Len(h[c].sent[2]) = 4 /\ Len(h[c].sent[3]) = 4
    /\ h[c].pc = "length"
====
